---- MODULE Spec2Model ----
(***************************************************************************)
(* Verification model of parts of the docplex-examples repository:         *)
(*                                                                         *)
(*   - examples/mp/docplexcloud/diet_pandas.py: the output lock, the       *)
(*     callonce wrapper, write_all_outputs and the stop callback           *)
(*     (specification SpecDiet);                                           *)
(*   - examples/cp/visu/_utils_visu.py: the figure / timeline / panel      *)
(*     state machine behind the public drawing commands (SpecVisu) and     *)
(*     the segment arithmetic (SpecSeg);                                   *)
(*   - the result-reporting tail of three CP example scripts (SpecScript); *)
(*   - examples/mp/workflow/cutstock.py: the column generation loop of     *)
(*     CutStockMasterModel.run (SpecCut);                                  *)
(*   - examples/mp/callbacks/branch_callback.py: the MyBranch callback     *)
(*     (SpecBranch).                                                       *)
(*                                                                         *)
(* Each specification drives its own variables and leaves the variables of *)
(* the other parts at their initial value.                                 *)
(***************************************************************************)
EXTENDS Integers, Sequences, FiniteSets, TLC

VARIABLES
    \* ---- diet_pandas.py
    output_lock,    \* "free", or the thread holding threading.Lock()
    called,         \* write_all_outputs.called (attribute of the wrapper)
    outputs,        \* keys of the outputs dict
    files,          \* csv files written through get_output_stream
    pc,             \* thread -> location
    iter,           \* thread -> keys still to visit by the writing loop
    writes,         \* number of started executions of the body of write_all_outputs
    \* ---- result reporting of the CP example scripts
    script,         \* which script runs
    spc,            \* its location
    hasSol,         \* the solve call returned a solution
    noSolMsg,       \* the no-solution message was printed
    reads,          \* variable values read from the solve result
    cell,           \* light_up: <<l, c>> of the grid loop
    k,              \* Cutting_stock: index of the next variable read
    \* ---- _utils_visu.py: segment arithmetic
    segArgs,        \* the arguments of a call segment(*args)
    segX,           \* the abscissa at which the segment is evaluated
    segOut,         \* the outcome: not called yet, an error, or the value
    \* ---- _utils_visu.py: the _Visu singleton and its figures
    figures,        \* every figure constructed so far (a figure is its index)
    active_figure,  \* _visu._active_figure (0 for None)
    all_figures,    \* _visu._all_figures
    shown,          \* what each completed show() displayed
    last,           \* the last public command called: name, arguments, raised
    pending,        \* panel(name) was called and no content command ran since
    pauseLog,       \* for each pause created: its timeline, current panel, list
    ncalls,         \* number of public commands called
    limit,          \* number of public commands the run may call
    \* ---- cutstock.py: CutStockMasterModel.run
    cpc,            \* location in run
    loop_count,     \* local loop_count
    best,           \* local best
    curr,           \* local curr
    status,         \* local status
    best_cost,      \* self.best_cost
    nb_iters,       \* self.nb_iters
    patterns,       \* len(self.patterns)
    returned,       \* the value returned by run
    masterSolves,   \* number of calls of master_model.solve()
    genSolves,      \* number of calls of gen_model.solve()
    lastSolve,      \* the last solve performed: its model and outcome, and the
                    \* objective of the last master solve
    failed,         \* some solve has failed
    retries,        \* number of solves performed after a failed solve
    \* ---- branch_callback.py: MyBranch
    bpc,            \* location in __call__ ("idle" between invocations)
    bestj,          \* local bestj
    maxinf,         \* local maxinf (numerator over Den)
    maxobj,         \* local maxobj
    nb_called,      \* self.nb_called
    stats,          \* self.stats: variable index -> number of branchings
    branches,       \* the make_branch calls of the last invocation
    br_type,        \* get_branch_type() of the last invocation
    xs,             \* x = get_values(): the entries read so far by the last
                    \* invocation (numerators over Den)
    feas            \* get_feasibilities(): the entries read so far

dietVars == <<output_lock, called, outputs, files, pc, iter, writes>>

scriptVars == <<script, spc, hasSol, noSolMsg, reads, cell, k>>

segVars == <<segArgs, segX, segOut>>

visuVars == <<figures, active_figure, all_figures, shown, last, pending, pauseLog, ncalls,
             limit>>

cutVars == <<cpc, loop_count, best, curr, status, best_cost, nb_iters, patterns, returned,
            masterSolves, genSolves, lastSolve, failed, retries>>

branchVars == <<bpc, bestj, maxinf, maxobj, nb_called, stats, branches, br_type, xs, feas>>

vars == <<dietVars, scriptVars, segVars, visuVars, cutVars, branchVars>>

notDiet == <<scriptVars, segVars, visuVars, cutVars, branchVars>>
notScript == <<dietVars, segVars, visuVars, cutVars, branchVars>>
notSeg == <<dietVars, scriptVars, visuVars, cutVars, branchVars>>
notVisu == <<dietVars, scriptVars, segVars, cutVars, branchVars>>
notCut == <<dietVars, scriptVars, segVars, visuVars, branchVars>>
notBranch == <<dietVars, scriptVars, segVars, visuVars, cutVars>>

\* The variables of the parts a specification does not drive.
DietIdle ==
    /\ output_lock = "free"
    /\ called = FALSE
    /\ outputs = {}
    /\ files = {}
    /\ pc = [t \in {"main", "cb"} |-> "off"]
    /\ iter = [t \in {"main", "cb"} |-> {}]
    /\ writes = 0

ScriptIdle ==
    /\ script = "none"
    /\ spc = "off"
    /\ hasSol = FALSE
    /\ noSolMsg = FALSE
    /\ reads = 0
    /\ cell = <<0, 0>>
    /\ k = 0

SegIdle ==
    /\ segArgs = <<>>
    /\ segX = 0
    /\ segOut = [st |-> "off", num |-> 0, den |-> 1]

VisuIdle ==
    /\ figures = <<>>
    /\ active_figure = 0
    /\ all_figures = <<>>
    /\ shown = <<>>
    /\ last = [op |-> "off", args |-> <<>>, raised |-> FALSE]
    /\ pending = [on |-> FALSE, name |-> [t |-> "none", v |-> 0, e |-> 0, s |-> ""]]
    /\ pauseLog = <<>>
    /\ ncalls = 0
    /\ limit = 0

CutIdle ==
    /\ cpc = "off"
    /\ loop_count = 0
    /\ best = 0
    /\ curr = 0
    /\ status = FALSE
    /\ best_cost = -1
    /\ nb_iters = -1
    /\ patterns = 0
    /\ returned = FALSE
    /\ masterSolves = 0
    /\ genSolves = 0
    /\ lastSolve = [model |-> "none", ok |-> FALSE, masterObj |-> 0]
    /\ failed = FALSE
    /\ retries = 0

BranchIdle ==
    /\ bpc = "off"
    /\ bestj = -1
    /\ maxinf = 0
    /\ maxobj = 0
    /\ nb_called = 0
    /\ stats = <<>>
    /\ branches = <<>>
    /\ br_type = "none"
    /\ xs = <<>>
    /\ feas = <<>>

(***************************************************************************)
(*                     diet_pandas.py (SpecDiet)                           *)
(***************************************************************************)

Threads == {"main", "cb"}

\* Locations inside the wrapper returned by callonce(write_all_outputs).
WrapperLocs == {"w_check", "w_set", "w_acquire", "w_write", "w_release", "w_len"}

\* Locations at which the body of write_all_outputs is running or about to run:
\* the wrapper has committed to the call (called was found False).
WritePendingLocs == {"w_set", "w_acquire"}
WriteInProgressLocs == {"w_write", "w_release"}

DietInit ==
    /\ output_lock = "free"
    /\ called = FALSE
    /\ outputs = {}
    /\ files = {}
    /\ pc = [t \in Threads |-> IF t = "main" THEN "m_start" ELSE "cb_unset"]
    /\ iter = [t \in Threads |-> {}]
    /\ writes = 0
    /\ ScriptIdle
    /\ SegIdle
    /\ VisuIdle
    /\ CutIdle
    /\ BranchIdle

\* __main__ line 160: set_stop_callback(partial(wait_and_save_all_cb, outputs)).
\* From here on the environment may invoke the callback, on its own thread.
SetStopCallback ==
    /\ pc["main"] = "m_start"
    /\ pc["cb"] = "cb_unset"
    /\ pc' = [pc EXCEPT !["main"] = "m_solve", !["cb"] = "cb_idle"]
    /\ UNCHANGED <<output_lock, called, outputs, files, iter, writes>>
    /\ UNCHANGED notDiet

\* __main__ lines 162-172: build and solve; the solver's answer is an input.
Solve ==
    /\ pc["main"] = "m_solve"
    /\ \E ok \in BOOLEAN :
          pc' = [pc EXCEPT !["main"] = IF ok THEN "m_lock" ELSE "m_done"]
    /\ UNCHANGED <<output_lock, called, outputs, files, iter, writes>>
    /\ UNCHANGED notDiet

\* __main__ line 174: with output_lock (enter).
MainLock ==
    /\ pc["main"] = "m_lock"
    /\ output_lock = "free"
    /\ output_lock' = "main"
    /\ pc' = [pc EXCEPT !["main"] = "m_assign"]
    /\ UNCHANGED <<called, outputs, files, iter, writes>>
    /\ UNCHANGED notDiet

\* __main__ line 176: outputs['solution'] = solution_df.
MainAssign ==
    /\ pc["main"] = "m_assign"
    /\ outputs' = outputs \cup {"solution"}
    /\ pc' = [pc EXCEPT !["main"] = "m_unlock"]
    /\ UNCHANGED <<output_lock, called, files, iter, writes>>
    /\ UNCHANGED notDiet

\* __main__ line 174: with output_lock (exit); then line 181 calls the wrapper.
MainUnlock ==
    /\ pc["main"] = "m_unlock"
    /\ output_lock' = "free"
    /\ pc' = [pc EXCEPT !["main"] = "w_check"]
    /\ UNCHANGED <<called, outputs, files, iter, writes>>
    /\ UNCHANGED notDiet

\* The environment invokes the stop callback: the job is being aborted. It can
\* happen at any moment while the script runs.
StopCallbackFires ==
    /\ pc["cb"] = "cb_idle"
    /\ pc["main"] # "m_done"
    /\ pc' = [pc EXCEPT !["cb"] = "cb_wait"]
    /\ UNCHANGED <<output_lock, called, outputs, files, iter, writes>>
    /\ UNCHANGED notDiet

\* wait_and_save_all_cb line 97: with output_lock (enter).
CbWait ==
    /\ pc["cb"] = "cb_wait"
    /\ output_lock = "free"
    /\ output_lock' = "cb"
    /\ pc' = [pc EXCEPT !["cb"] = "cb_pass"]
    /\ UNCHANGED <<called, outputs, files, iter, writes>>
    /\ UNCHANGED notDiet

\* wait_and_save_all_cb lines 98-100: pass, leave the with block, call the wrapper.
CbPass ==
    /\ pc["cb"] = "cb_pass"
    /\ output_lock' = "free"
    /\ pc' = [pc EXCEPT !["cb"] = "w_check"]
    /\ UNCHANGED <<called, outputs, files, iter, writes>>
    /\ UNCHANGED notDiet

\* Where a thread continues when the wrapper returns.
ReturnLoc(t) == IF t = "main" THEN "m_done" ELSE "cb_returned"

\* callonce.wrapper line 67: if not wrapper.called; line 70 otherwise.
WrapperCheck(t) ==
    /\ pc[t] = "w_check"
    /\ pc' = [pc EXCEPT ![t] = IF ~called THEN "w_set" ELSE ReturnLoc(t)]
    /\ UNCHANGED <<output_lock, called, outputs, files, iter, writes>>
    /\ UNCHANGED notDiet

\* callonce.wrapper line 68: wrapper.called = True; line 69 enters f.
WrapperSet(t) ==
    /\ pc[t] = "w_set"
    /\ called' = TRUE
    /\ pc' = [pc EXCEPT ![t] = "w_acquire"]
    /\ UNCHANGED <<output_lock, outputs, files, iter, writes>>
    /\ UNCHANGED notDiet

\* write_all_outputs without 'with output_lock' (line 82): the loop is entered
\* whatever the state of the lock.
WriteAcquire_NoLock(t) ==
    /\ pc[t] = "w_acquire"
    /\ iter' = [iter EXCEPT ![t] = outputs]
    /\ writes' = writes + 1
    /\ pc' = [pc EXCEPT ![t] = "w_write"]
    /\ UNCHANGED <<output_lock, called, outputs, files>>
    /\ UNCHANGED notDiet

\* write_all_outputs lines 82-83: with output_lock (enter), start the loop.
WriteAcquire(t) ==
    /\ pc[t] = "w_acquire"
    /\ output_lock = "free"
    /\ output_lock' = t
    /\ iter' = [iter EXCEPT ![t] = outputs]
    /\ writes' = writes + 1
    /\ pc' = [pc EXCEPT ![t] = "w_write"]
    /\ UNCHANGED <<called, outputs, files>>
    /\ UNCHANGED notDiet

\* write_all_outputs lines 83-86: one iteration of the loop, or its end.
WriteLoop(t) ==
    /\ pc[t] = "w_write"
    /\ IF iter[t] # {}
          THEN \E name \in iter[t] :
                  /\ files' = files \cup {name}
                  /\ iter' = [iter EXCEPT ![t] = iter[t] \ {name}]
                  /\ pc' = pc
          ELSE /\ pc' = [pc EXCEPT ![t] = "w_release"]
               /\ UNCHANGED <<files, iter>>
    /\ UNCHANGED <<output_lock, called, outputs, writes>>
    /\ UNCHANGED notDiet

\* write_all_outputs line 82: with output_lock (exit).
WriteRelease(t) ==
    /\ pc[t] = "w_release"
    /\ output_lock' = IF output_lock = t THEN "free" ELSE output_lock
    /\ pc' = [pc EXCEPT ![t] = "w_len"]
    /\ UNCHANGED <<called, outputs, files, iter, writes>>
    /\ UNCHANGED notDiet

\* write_all_outputs lines 87-88: the warning, then return to the caller.
WriteLen(t) ==
    /\ pc[t] = "w_len"
    /\ pc' = [pc EXCEPT ![t] = ReturnLoc(t)]
    /\ UNCHANGED <<output_lock, called, outputs, files, iter, writes>>
    /\ UNCHANGED notDiet

DietNext ==
    \/ SetStopCallback
    \/ Solve
    \/ MainLock
    \/ MainAssign
    \/ MainUnlock
    \/ StopCallbackFires
    \/ CbWait
    \/ CbPass
    \/ \E t \in Threads : WrapperCheck(t)
    \/ \E t \in Threads : WrapperSet(t)
    \/ \E t \in Threads : WriteAcquire(t)
    \/ \E t \in Threads : WriteLoop(t)
    \/ \E t \in Threads : WriteRelease(t)
    \/ \E t \in Threads : WriteLen(t)

SpecDiet == DietInit /\ [][DietNext]_vars

(***************************************************************************)
(*        Result reporting of the CP example scripts (SpecScript)          *)
(*                                                                         *)
(* examples/cp/basic/light_up.py, sched_jobshop_blackbox.py and            *)
(* Cutting_stock_with_flexible_length.py, from the solve call on.          *)
(***************************************************************************)

Scripts == {"light_up", "jobshop", "cutting"}

\* Size of the light_up grid walked by the printing loop (HEIGHT x WIDTH).
GridHeight == 3
GridWidth == 4
\* Number of decision variables of the cutting stock model (x, y, s, c).
CutVars == 4

ScriptInit ==
    /\ script \in Scripts
    /\ spc = "solve"
    /\ hasSol = FALSE
    /\ noSolMsg = FALSE
    /\ reads = 0
    /\ cell = <<0, 0>>
    /\ k = 0
    /\ DietIdle
    /\ SegIdle
    /\ VisuIdle
    /\ CutIdle
    /\ BranchIdle

\* mdl.solve(...): light_up.py line 212, sched_jobshop_blackbox.py line 290,
\* Cutting_stock_with_flexible_length.py line 211. The solver's answer is an input.
ScriptSolve ==
    /\ spc = "solve"
    /\ \E sol \in BOOLEAN : hasSol' = sol
    /\ spc' = IF script = "cutting" THEN "read" ELSE "test"
    /\ UNCHANGED <<script, noSolMsg, reads, cell, k>>
    /\ UNCHANGED notScript

\* light_up.py line 217 (if msol) and lines 231-232 (else branch).
LightUpTest ==
    /\ script = "light_up"
    /\ spc = "test"
    /\ IF hasSol
          THEN spc' = "grid" /\ noSolMsg' = noSolMsg
          ELSE spc' = "done" /\ noSolMsg' = TRUE
    /\ UNCHANGED <<script, hasSol, reads, cell, k>>
    /\ UNCHANGED notScript

\* light_up.py lines 221-228: one cell of the grid; msol[bulbs[l][c]] is read
\* for a blank cell of the puzzle (the puzzle is data: either kind of cell).
LightUpCell ==
    /\ script = "light_up"
    /\ spc = "grid"
    /\ cell[1] < GridHeight
    /\ \E blank \in BOOLEAN : reads' = IF blank THEN reads + 1 ELSE reads
    /\ cell' = IF cell[2] + 1 < GridWidth
                  THEN <<cell[1], cell[2] + 1>>
                  ELSE <<cell[1] + 1, 0>>
    /\ UNCHANGED <<script, spc, hasSol, noSolMsg, k>>
    /\ UNCHANGED notScript

\* light_up.py lines 229-230: print the grid and msol[nbbulbs].
LightUpTotal ==
    /\ script = "light_up"
    /\ spc = "grid"
    /\ cell[1] = GridHeight
    /\ reads' = reads + 1
    /\ spc' = "done"
    /\ UNCHANGED <<script, hasSol, noSolMsg, cell, k>>
    /\ UNCHANGED notScript

\* sched_jobshop_blackbox.py lines 291-294.
JobshopTest ==
    /\ script = "jobshop"
    /\ spc = "test"
    /\ noSolMsg' = ~hasSol
    /\ spc' = "done"
    /\ UNCHANGED <<script, hasSol, reads, cell, k>>
    /\ UNCHANGED notScript

\* Cutting_stock_with_flexible_length.py lines 214-217: sol[v] for each variable
\* of c, s, y and x, before the result is tested. What sol[v] does on a result
\* without solution is the library's: it yields a value or raises.
CuttingRead ==
    /\ script = "cutting"
    /\ spc = "read"
    /\ IF k < CutVars
          THEN /\ reads' = reads + 1
               /\ k' = k + 1
               /\ \/ spc' = spc
                  \/ ~hasSol /\ spc' = "raised"
          ELSE /\ spc' = "report"
               /\ UNCHANGED <<reads, k>>
    /\ UNCHANGED <<script, hasSol, noSolMsg, cell>>
    /\ UNCHANGED notScript

\* Cutting_stock_with_flexible_length.py lines 219-241: obj is empty exactly when
\* there is no solution; the values printed at 232-241 were read at 214-217.
CuttingReport ==
    /\ script = "cutting"
    /\ spc = "report"
    /\ noSolMsg' = ~hasSol
    /\ spc' = "done"
    /\ UNCHANGED <<script, hasSol, reads, cell, k>>
    /\ UNCHANGED notScript

ScriptNext ==
    \/ ScriptSolve
    \/ LightUpTest
    \/ LightUpCell
    \/ LightUpTotal
    \/ JobshopTest
    \/ CuttingRead
    \/ CuttingReport

SpecScript == ScriptInit /\ [][ScriptNext]_vars

(***************************************************************************)
(*        _utils_visu.py: arguments of the public commands                 *)
(***************************************************************************)

\* The integer limits imported from docplex.cp.solution (line 30). The library
\* values (2^53 - 1 and about half of it) are scaled down; only their order
\* INT_MIN < INTERVAL_MIN < 0 < INTERVAL_MAX < INT_MAX is used by the code.
INT_MAX == 15
INT_MIN == -INT_MAX
INTERVAL_MAX == (INT_MAX \div 2) - 1
INTERVAL_MIN == -INTERVAL_MAX

\* Python values passed as arguments: an int, a str, None, or a
\* CpoIntervalVarSolution with its start (v), end (e) and name (s).
PyInt(i) == [t |-> "int", v |-> i, e |-> 0, s |-> ""]
PyStr(x) == [t |-> "str", v |-> 0, e |-> 0, s |-> x]
None == [t |-> "none", v |-> 0, e |-> 0, s |-> ""]
Itv(a, b, n) == [t |-> "itv", v |-> a, e |-> b, s |-> n]

IsInt(a) == a.t = "int"
IsStr(a) == a.t = "str"
IsItv(a) == a.t = "itv"
IsNone(a) == a.t = "none"

\* What a _canonical_* function yields: an AssertionError (err) or the tuple.
CanonError == [err |-> TRUE, start |-> 0, end |-> 0, a |-> None, b |-> None, name |-> None]
Canon(st, en, x, y, nm) ==
    [err |-> FALSE, start |-> st, end |-> en, a |-> x, b |-> y, name |-> nm]

\* The start and end decoded from the leading argument(s), lines 994-1010,
\* 1030-1044, 1056-1070, 1087-1103: k is the number of arguments consumed.
CanonBounds(args) ==
    LET n == Len(args) IN
    IF ~(1 < n) THEN [err |-> TRUE, start |-> 0, end |-> 0, k |-> 0]
    ELSE IF IsItv(args[1])
        THEN [err |-> FALSE, start |-> args[1].v, end |-> args[1].e, k |-> 1]
    ELSE IF ~(args[1] = PyStr("intervalmin") \/ IsInt(args[1]))
        THEN [err |-> TRUE, start |-> 0, end |-> 0, k |-> 0]
    ELSE IF ~(args[2] = PyStr("intervalmax") \/ IsInt(args[2]))
        THEN [err |-> TRUE, start |-> 0, end |-> 0, k |-> 0]
    ELSE [err |-> FALSE,
          start |-> IF args[1] = PyStr("intervalmin") THEN INTERVAL_MIN ELSE args[1].v,
          end |-> IF args[2] = PyStr("intervalmax") THEN INTERVAL_MAX ELSE args[2].v,
          k |-> 2]

\* _canonical_segment, lines 1074-1125: (start, end, vstart, vend, name) with
\* vstart in field a and vend in field b.
_canonical_segment(args) ==
    LET n == Len(args)
        b == CanonBounds(args)
        kk == b.k
    IN  IF b.err THEN CanonError
        ELSE IF ~(kk < n) THEN CanonError
        ELSE IF ~IsInt(args[kk + 1]) THEN CanonError
        ELSE IF kk + 1 < n
            THEN IF IsStr(args[kk + 2])
                    THEN Canon(b.start, b.end, args[kk + 1], args[kk + 1], args[kk + 2])
                 ELSE IF ~IsInt(args[kk + 2]) THEN CanonError
                 ELSE IF kk + 2 < n
                    THEN IF ~IsStr(args[kk + 3]) THEN CanonError
                         ELSE Canon(b.start, b.end, args[kk + 1], args[kk + 2], args[kk + 3])
                    ELSE Canon(b.start, b.end, args[kk + 1], args[kk + 2], PyStr(""))
            ELSE Canon(b.start, b.end, args[kk + 1], args[kk + 1], PyStr(""))

\* vend was not given: the forms (start, end, vstart[, name]) and
\* (cpointerval, vstart[, name]).
VendUnspecified(args) ==
    LET b == CanonBounds(args) IN
    /\ ~_canonical_segment(args).err
    /\ \/ Len(args) = b.k + 1
       \/ IsStr(args[b.k + 2])

(***************************************************************************)
(*        _utils_visu.py: timeline objects and the _TimeLine methods       *)
(*                                                                         *)
(* A timeline is a record. Its field objects is the list _objects in which *)
(* every _TLObject is recorded on construction (line 69): an object is     *)
(* referred to by its index in that list, 0 standing for None. Python      *)
(* lists that may be shared (the pause lists) live in the field lists and  *)
(* are referred to by index as well, 0 standing for None.                  *)
(***************************************************************************)

\* An optional integer: None or a value.
NoInt == <<>>
Some(v) == <<v>>

\* _TLObject.__init__, lines 60-69, with the fields its subclasses add.
NewObject(cls, name, origin, horizon, color) ==
    [cls |-> cls, name |-> name, origin |-> origin, horizon |-> horizon,
     color |-> color,
     start |-> 0, end |-> 0, vstart |-> 0, vend |-> 0,   \* _Segment
     intervals |-> <<>>, segments |-> <<>>,              \* _Sequence, _Function, _IntervalPanel
     members |-> <<>>,                                   \* sequences / functions of a panel
     position |-> -1,                                    \* _Sequence
     pauses |-> 0]                                       \* _Panel: its list _pauses

PanelClasses == {"SequencePanel", "IntervalPanel", "FunctionPanel"}

\* _TimeLine.__init__, lines 651-678 (kind "timeline"); a _Matrix (lines 577-592)
\* is a figure of kind "matrix" whose timeline fields are unused. born is the
\* number of completed show() calls at construction.
NewFigure(kind, origin, horizon, born) ==
    [kind |-> kind,
     origin |-> IF origin = NoInt THEN INT_MAX ELSE origin[1],
     horizon |-> IF horizon = NoInt THEN INT_MIN ELSE horizon[1],
     mincolor |-> INT_MAX, maxcolor |-> INT_MIN,
     objects |-> <<>>, lists |-> <<>>, pauses |-> <<>>,
     next_panel_name |-> None, next_panel_pauses |-> 0,
     active_sequencesp |-> 0, active_sequence |-> 0,
     active_functionsp |-> 0, active_function |-> 0,
     active_intervalsp |-> 0,
     panels |-> <<>>,
     born |-> born]

\* _TimeLine.record, lines 680-682: the new object gets index Len(objects) + 1.
record(tl, obj) == [tl EXCEPT !.objects = Append(@, obj)]
Last(tl) == Len(tl.objects)

\* _TimeLine.add_panel, lines 854-855.
add_panel(tl, p) == [tl EXCEPT !.panels = Append(@, p)]

\* _SequencePanel.add_sequence, lines 263-265, called on the active pair.
CloseSequence(tl) ==
    IF tl.active_sequence # 0
        THEN [tl EXCEPT
                 !.objects[tl.active_sequence].position =
                     Len(tl.objects[tl.active_sequencesp].members),
                 !.objects[tl.active_sequencesp].members =
                     Append(@, tl.active_sequence),
                 !.active_sequence = 0]
        ELSE tl

CloseSequencePanel(tl) ==
    IF tl.active_sequencesp # 0
        THEN [add_panel(tl, tl.active_sequencesp) EXCEPT !.active_sequencesp = 0]
        ELSE tl

CloseIntervalPanel(tl) ==
    IF tl.active_intervalsp # 0
        THEN [add_panel(tl, tl.active_intervalsp) EXCEPT !.active_intervalsp = 0]
        ELSE tl

\* _FunctionPanel.add_function, lines 436-437, called on the active pair.
CloseFunction(tl) ==
    IF tl.active_function # 0
        THEN [tl EXCEPT
                 !.objects[tl.active_functionsp].members =
                     Append(@, tl.active_function),
                 !.active_function = 0]
        ELSE tl

CloseFunctionPanel(tl) ==
    IF tl.active_functionsp # 0
        THEN [add_panel(tl, tl.active_functionsp) EXCEPT !.active_functionsp = 0]
        ELSE tl

\* panel() without its last step (lines 752-755): an open function panel stays
\* the active one.
TimeLine_panel_KeepsFunctionPanel(tl, name) ==
    LET t0 == [tl EXCEPT !.next_panel_name = name,
                         !.lists = Append(@, <<>>),
                         !.next_panel_pauses = Len(tl.lists) + 1]
    IN  CloseFunction(CloseIntervalPanel(CloseSequencePanel(CloseSequence(t0))))

\* _TimeLine.panel, lines 733-755.
TimeLine_panel(tl, name) ==
    LET t0 == [tl EXCEPT !.next_panel_name = name,
                         !.lists = Append(@, <<>>),
                         !.next_panel_pauses = Len(tl.lists) + 1]
    IN  CloseFunctionPanel(CloseFunction(CloseIntervalPanel(
            CloseSequencePanel(CloseSequence(t0)))))

\* _Panel.__init__, lines 214-221, as called at lines 772, 794 and 822 with
\* name = next_panel_name and pauses = next_panel_pauses: the panel keeps the
\* list it is given and makes a list of its own only when given None.
NewPanel(tl, cls) ==
    LET fresh == tl.next_panel_pauses = 0
        t1 == IF fresh THEN [tl EXCEPT !.lists = Append(@, <<>>)] ELSE tl
        p == [NewObject(cls, tl.next_panel_name, NoInt, NoInt, None)
                 EXCEPT !.pauses = IF fresh THEN Len(t1.lists)
                                    ELSE tl.next_panel_pauses]
    IN  record(t1, p)

\* _TimeLine.sequence, lines 757-777.
TimeLine_sequence(tl, name) ==
    LET t1 == CloseFunctionPanel(CloseFunction(CloseIntervalPanel(tl)))
        t2 == IF t1.active_sequencesp = 0
                 THEN LET t == NewPanel(t1, "SequencePanel")
                      IN  [t EXCEPT !.active_sequencesp = Last(t),
                                    !.next_panel_name = None]
                 ELSE t1
        t3 == CloseSequence(t2)
        t4 == record(t3, NewObject("Sequence", name, NoInt, NoInt, None))
    IN  [t4 EXCEPT !.active_sequence = Last(t4)]

\* _Interval.__init__, lines 111-118 (no naming function is set).
NewInterval(start, end, color, name) ==
    NewObject("Interval", name, Some(start), Some(end), color)

\* _TimeLine.interval, lines 779-797.
TimeLine_interval(tl, start, end, color, name) ==
    IF tl.active_sequence # 0
        THEN LET t1 == record(tl, NewInterval(start, end, color, name))
             IN  [t1 EXCEPT !.objects[tl.active_sequence].intervals =
                                Append(@, Last(t1))]
        ELSE LET t1 == CloseFunctionPanel(CloseFunction(tl))
                 t2 == IF t1.active_intervalsp = 0
                          THEN LET t == NewPanel(t1, "IntervalPanel")
                               IN  [t EXCEPT !.active_intervalsp = Last(t),
                                             !.next_panel_name = None]
                          ELSE t1
                 t3 == record(t2, NewInterval(start, end, color, name))
             IN  [t3 EXCEPT !.objects[t2.active_intervalsp].intervals =
                                Append(@, Last(t3))]

\* The name of the sequence made by line 802, sequence(self): the timeline itself.
TimeLineAsName == [t |-> "timeline", v |-> 0, e |-> 0, s |-> ""]

\* _TimeLine.transition, lines 799-805. sequence(self) at line 802 is the public
\* function: it reaches _TimeLine.sequence of the active timeline, which is this
\* timeline, with name = self.
TimeLine_transition(tl, start, end) ==
    LET t1 == IF tl.active_sequence = 0
                 THEN TimeLine_sequence(tl, TimeLineAsName)
                 ELSE tl
    IN  IF start < end
            THEN LET t2 == record(t1, NewInterval(start, end, PyInt(-1), None))
                 IN  [t2 EXCEPT !.objects[t1.active_sequence].intervals =
                                    Append(@, Last(t2))]
            ELSE t1

\* _TimeLine.function, lines 807-827, and _Function.__init__, lines 191-196.
TimeLine_function(tl, name, origin, horizon, color) ==
    LET t1 == CloseSequencePanel(CloseSequence(CloseIntervalPanel(tl)))
        t2 == IF t1.active_functionsp = 0
                 THEN LET t == NewPanel(t1, "FunctionPanel")
                      IN  [t EXCEPT !.active_functionsp = Last(t),
                                    !.next_panel_name = None]
                 ELSE t1
        t3 == CloseFunction(t2)
        t4 == record(t3, NewObject("Function", name, origin, horizon, color))
    IN  [t4 EXCEPT !.active_function = Last(t4)]

\* _Segment.__init__, lines 130-141: the base class gets the name only, so the
\* origin and horizon of a segment are None.
NewSegment(start, end, vstart, vend, name) ==
    [NewObject("Segment", name, NoInt, NoInt, None)
        EXCEPT !.start = start, !.end = end, !.vstart = vstart, !.vend = vend]

\* _TimeLine.segment, lines 829-837; the recursive call of line 837 finds the
\* active function made by line 836.
TimeLine_segment(tl, start, end, vstart, vend, name) ==
    LET t1 == IF tl.active_sequence = 0 /\ tl.active_function = 0
                 THEN TimeLine_function(tl, None, NoInt, NoInt, None)
                 ELSE tl
        t2 == record(t1, NewSegment(start, end, vstart, vend, name))
        owner == IF t1.active_sequence # 0 THEN t1.active_sequence
                 ELSE t1.active_function
    IN  [t2 EXCEPT !.objects[owner].segments = Append(@, Last(t2))]

\* The list to which _TimeLine.pause appends: that of the active panel, else
\* next_panel_pauses; 0 for the general list _pauses of the timeline.
PauseTarget(tl) ==
    IF tl.active_sequencesp # 0 THEN tl.objects[tl.active_sequencesp].pauses
    ELSE IF tl.active_functionsp # 0 THEN tl.objects[tl.active_functionsp].pauses
    ELSE IF tl.active_intervalsp # 0 THEN tl.objects[tl.active_intervalsp].pauses
    ELSE tl.next_panel_pauses

\* _TimeLine.pause, lines 839-849, and _Panel.add_pause, lines 233-234.
TimeLine_pause(tl, start, end) ==
    IF PauseTarget(tl) # 0
        THEN [tl EXCEPT !.lists[PauseTarget(tl)] = Append(@, <<start, end>>)]
        ELSE [tl EXCEPT !.pauses = Append(@, <<start, end>>)]

\* The panel that is current: the active panel, 0 when there is none.
CurrentPanel(tl) ==
    IF tl.active_sequencesp # 0 THEN tl.active_sequencesp
    ELSE IF tl.active_functionsp # 0 THEN tl.active_functionsp
    ELSE tl.active_intervalsp

Min2(a, b) == IF a < b THEN a ELSE b
Max2(a, b) == IF a > b THEN a ELSE b

\* The loop of _TimeLine.update_bounds, lines 716-727, over objects i..Len.
RECURSIVE BoundsLoop(_, _)
BoundsLoop(tl, i) ==
    IF i > Len(tl.objects) THEN tl
    ELSE LET o == tl.objects[i]
             org == IF o.origin # NoInt /\ o.origin[1] > INTERVAL_MIN
                       THEN Min2(tl.origin, o.origin[1]) ELSE tl.origin
             hor == IF o.horizon # NoInt /\ o.horizon[1] < INTERVAL_MAX
                       THEN Max2(tl.horizon, o.horizon[1]) ELSE tl.horizon
             isc == IsInt(o.color)
         IN  BoundsLoop([tl EXCEPT
                            !.origin = org, !.horizon = hor,
                            !.mincolor = IF isc THEN Min2(@, o.color.v) ELSE @,
                            !.maxcolor = IF isc THEN Max2(@, o.color.v) ELSE @],
                        i + 1)

\* _TimeLine.update_bounds, lines 715-731: the state after the loop, and
\* whether the assertion of lines 728-731 holds.
update_bounds(tl) == BoundsLoop(tl, 1)
BoundsAsserted(tl) ==
    tl.origin < tl.horizon /\ tl.origin > INT_MIN /\ tl.horizon < INT_MAX

(***************************************************************************)
(*        _utils_visu.py: the _Visu singleton and the public commands      *)
(*                               (SpecVisu)                                *)
(***************************************************************************)

\* _canonical_interval, lines 980-1019: (start, end, color, name), the colour
\* in field a.
_canonical_interval(args) ==
    LET n == Len(args)
        b == CanonBounds(args)
    IN  IF b.err THEN CanonError
        ELSE IF b.k < n
            THEN IF ~(IsNone(args[b.k + 1]) \/ IsInt(args[b.k + 1]) \/ IsStr(args[b.k + 1]))
                    THEN CanonError
                 ELSE IF b.k + 1 < n
                    THEN IF ~(IsNone(args[b.k + 2]) \/ IsStr(args[b.k + 2]))
                            THEN CanonError
                            ELSE Canon(b.start, b.end, args[b.k + 1], None, args[b.k + 2])
                    ELSE Canon(b.start, b.end, args[b.k + 1], None, PyStr(""))
            ELSE Canon(b.start, b.end, PyInt(0), None, PyStr(""))

\* _canonical_transition, lines 1022-1045: (start, end).
_canonical_transition(args) ==
    LET b == CanonBounds(args)
    IN  IF b.err THEN CanonError ELSE Canon(b.start, b.end, None, None, None)

\* _canonical_pause, lines 1048-1071: (start, end).
_canonical_pause(args) ==
    LET b == CanonBounds(args)
    IN  IF b.err THEN CanonError ELSE Canon(b.start, b.end, None, None, None)

\* The state of _visu as one value, for the operators below.
Visu == [figs |-> figures, act |-> active_figure, all |-> all_figures]

\* _Visu.has_active_timeline, lines 907-909.
has_active_timeline(V) == V.act # 0 /\ V.figs[V.act].kind = "timeline"

\* _Visu.timeline, lines 896-899: the figure that was active is kept as it is.
Visu_timeline(V, origin, horizon, born) ==
    [figs |-> Append(V.figs, NewFigure("timeline", origin, horizon, born)),
     act |-> Len(V.figs) + 1,
     all |-> IF V.act # 0 THEN Append(V.all, V.act) ELSE V.all]

\* _TimeLine.flush, lines 851-852, and _Matrix.flush, lines 591-592.
flush(fig) == IF fig.kind = "timeline" THEN TimeLine_panel(fig, None) ELSE fig

\* _Visu.matrix, lines 901-905.
Visu_matrix(V, born) ==
    [figs |-> Append(IF V.act # 0
                        THEN [V.figs EXCEPT ![V.act] = flush(@)]
                        ELSE V.figs,
                     NewFigure("matrix", NoInt, NoInt, born)),
     act |-> Len(V.figs) + 1,
     all |-> IF V.act # 0 THEN Append(V.all, V.act) ELSE V.all]

\* "if not self.has_active_timeline: timeline()" of lines 925-958: the public
\* timeline() with its defaults.
WithTimeline(V, born) ==
    IF has_active_timeline(V) THEN V ELSE Visu_timeline(V, NoInt, NoInt, born)

\* The active timeline replaced by tl.
OnActive(V, tl) == [V EXCEPT !.figs[V.act] = tl]
Active(V) == V.figs[V.act]

\* _Visu.panel ... _Visu.pause, lines 925-958.
Visu_panel(V, name, born) ==
    LET W == WithTimeline(V, born) IN OnActive(W, TimeLine_panel(Active(W), name))
Visu_sequence(V, name, born) ==
    LET W == WithTimeline(V, born) IN OnActive(W, TimeLine_sequence(Active(W), name))
Visu_interval(V, start, end, color, name, born) ==
    LET W == WithTimeline(V, born)
    IN  OnActive(W, TimeLine_interval(Active(W), start, end, color, name))
Visu_transition(V, start, end, born) ==
    LET W == WithTimeline(V, born)
    IN  OnActive(W, TimeLine_transition(Active(W), start, end))
Visu_function(V, name, origin, horizon, color, born) ==
    LET W == WithTimeline(V, born)
    IN  OnActive(W, TimeLine_function(Active(W), name, origin, horizon, color))
Visu_segment(V, start, end, vstart, vend, name, born) ==
    LET W == WithTimeline(V, born)
    IN  OnActive(W, TimeLine_segment(Active(W), start, end, vstart, vend, name))
Visu_pause(V, start, end, born) ==
    LET W == WithTimeline(V, born)
    IN  OnActive(W, TimeLine_pause(Active(W), start, end))

\* _TimeLine.show, lines 864-886, and _Matrix.show, lines 594-647: the figure
\* afterwards and whether it could be drawn. update_bounds changes the timeline
\* before its assertion is tested; plt.subplots (line 871) rejects a figure
\* with no panel. Intervals are created with start < end here, for which
\* _IntervalPanel.preshow (lines 362-378) always succeeds.
Figure_show(fig) ==
    IF fig.kind = "matrix" THEN [fig |-> fig, ok |-> TRUE]
    ELSE LET t == update_bounds(fig)
         IN  [fig |-> t, ok |-> BoundsAsserted(t) /\ Len(t.panels) > 0]

\* The loop of _Visu.show, lines 963-966, from position i of order: it stops at
\* the first figure whose show raises.
RECURSIVE ShowLoop(_, _, _)
ShowLoop(figs, order, i) ==
    IF i > Len(order) THEN [figs |-> figs, ok |-> TRUE]
    ELSE LET r == Figure_show(figs[order[i]])
             figs2 == [figs EXCEPT ![order[i]] = r.fig]
         IN  IF r.ok THEN ShowLoop(figs2, order, i + 1)
             ELSE [figs |-> figs2, ok |-> FALSE]

\* What plt.show() puts on screen for the figures of order.
Displayed(figs, order) ==
    [i \in 1..Len(order) |->
        [fig |-> order[i],
         panels |-> figs[order[i]].panels,
         origin |-> figs[order[i]].origin,
         horizon |-> figs[order[i]].horizon]]

\* Bounds on the number of public commands called in one run: of SpecVisu
\* and of the shorter runs of SpecPanel.
MaxCalls == 5
MaxPanelCalls == 4

\* Inputs of the public commands.
X == Itv(1, 2, "x")
TimelineBounds == {<<NoInt, NoInt>>, <<Some(0), Some(1)>>}
PanelNames == {PyStr("P")}
IntervalArgs == {<<PyInt(0), PyInt(2), PyInt(1), PyStr("J")>>, <<X>>}
TransitionArgs == {<<PyInt(2), PyInt(3)>>, <<X>>}
FunctionBounds == {<<NoInt, NoInt>>, <<Some(-1), Some(1)>>}
SegmentArgs == {<<PyInt(-2), PyInt(3), PyInt(1)>>}
PauseArgs == {<<PyInt(1), PyInt(2)>>, <<X>>}

\* _visu = _Visu(), line 972, and _Visu.__init__, lines 890-894.
VisuStart(n) ==
    /\ figures = <<>>
    /\ active_figure = 0
    /\ all_figures = <<>>
    /\ shown = <<>>
    /\ last = [op |-> "none", args |-> <<>>, raised |-> FALSE]
    /\ pending = [on |-> FALSE, name |-> None]
    /\ pauseLog = <<>>
    /\ ncalls = 0
    /\ limit = n

VisuInit ==
    /\ VisuStart(MaxCalls)
    /\ DietIdle
    /\ ScriptIdle
    /\ SegIdle
    /\ CutIdle
    /\ BranchIdle

\* The number of completed show() calls.
Born == Len(shown)

\* The assignment of _visu's state after a command that returned normally.
Returned(V, op, args) ==
    /\ figures' = V.figs
    /\ active_figure' = V.act
    /\ all_figures' = V.all
    /\ last' = [op |-> op, args |-> args, raised |-> FALSE]
    /\ ncalls' = ncalls + 1

\* A command that raised before it changed anything.
Raised(op, args) ==
    /\ last' = [op |-> op, args |-> args, raised |-> TRUE]
    /\ ncalls' = ncalls + 1
    /\ UNCHANGED <<figures, active_figure, all_figures, shown, pending, pauseLog, limit>>

\* timeline(name, origin, horizon), lines 1284-1309, without pauses.
timeline ==
    /\ ncalls < limit
    /\ \E b \in TimelineBounds :
          Returned(Visu_timeline(Visu, b[1], b[2], Born), "timeline", <<>>)
    /\ pending' = [pending EXCEPT !.on = FALSE]
    /\ UNCHANGED <<shown, pauseLog, limit>>
    /\ UNCHANGED notVisu

\* matrix(name, matrix=... or tuples=...), lines 1253-1281.
matrix ==
    /\ ncalls < limit
    /\ Returned(Visu_matrix(Visu, Born), "matrix", <<>>)
    /\ pending' = [pending EXCEPT !.on = FALSE]
    /\ UNCHANGED <<shown, pauseLog, limit>>
    /\ UNCHANGED notVisu

\* panel(name), lines 1312-1327.
panel ==
    /\ ncalls < limit
    /\ \E name \in PanelNames :
          /\ Returned(Visu_panel(Visu, name, Born), "panel", <<name>>)
          /\ pending' = [on |-> TRUE, name |-> name]
    /\ UNCHANGED <<shown, pauseLog, limit>>
    /\ UNCHANGED notVisu

\* sequence(name), lines 1330-1378, without intervals, transitions, segments.
sequence ==
    /\ ncalls < limit
    /\ Returned(Visu_sequence(Visu, PyStr("S"), Born), "sequence", <<>>)
    /\ pending' = [pending EXCEPT !.on = FALSE]
    /\ UNCHANGED <<shown, pauseLog, limit>>
    /\ UNCHANGED notVisu

\* interval(*args), lines 1434-1464.
interval ==
    /\ ncalls < limit
    /\ \E args \in IntervalArgs :
          LET c == _canonical_interval(args) IN
          IF c.err THEN Raised("interval", args)
          ELSE /\ Returned(Visu_interval(Visu, c.start, c.end, c.a, c.name, Born),
                           "interval", args)
               /\ pending' = [pending EXCEPT !.on = FALSE]
               /\ UNCHANGED <<shown, pauseLog, limit>>
    /\ UNCHANGED notVisu

\* transition(*args), lines 1467-1485.
transition ==
    /\ ncalls < limit
    /\ \E args \in TransitionArgs :
          LET c == _canonical_transition(args) IN
          IF c.err THEN Raised("transition", args)
          ELSE /\ Returned(Visu_transition(Visu, c.start, c.end, Born),
                           "transition", args)
               /\ pending' = [pending EXCEPT !.on = FALSE]
               /\ UNCHANGED <<shown, pauseLog, limit>>
    /\ UNCHANGED notVisu

\* function(name, origin=..., horizon=...), lines 1381-1431, without segments.
function ==
    /\ ncalls < limit
    /\ \E b \in FunctionBounds :
          Returned(Visu_function(Visu, PyStr("F"), b[1], b[2], None, Born),
                   "function", <<>>)
    /\ pending' = [pending EXCEPT !.on = FALSE]
    /\ UNCHANGED <<shown, pauseLog, limit>>
    /\ UNCHANGED notVisu

\* segment(*args), lines 1488-1525.
segment ==
    /\ ncalls < limit
    /\ \E args \in SegmentArgs :
          LET c == _canonical_segment(args) IN
          IF c.err THEN Raised("segment", args)
          ELSE /\ Returned(Visu_segment(Visu, c.start, c.end, c.a.v, c.b.v, c.name, Born),
                           "segment", args)
               /\ pending' = [pending EXCEPT !.on = FALSE]
               /\ UNCHANGED <<shown, pauseLog, limit>>
    /\ UNCHANGED notVisu

\* pause(*args), lines 1528-1551, for the forms that are not a CpoFunction.
pause ==
    /\ ncalls < limit
    /\ \E args \in PauseArgs :
          LET c == _canonical_pause(args) IN
          IF c.err THEN Raised("pause", args)
          ELSE LET W == WithTimeline(Visu, Born) IN
               /\ Returned(Visu_pause(Visu, c.start, c.end, Born), "pause", args)
               /\ pauseLog' = Append(pauseLog,
                                 [fig |-> W.act,
                                  panel |-> CurrentPanel(Active(W)),
                                  list |-> PauseTarget(Active(W))])
               /\ UNCHANGED <<shown, pending, limit>>
    /\ UNCHANGED notVisu

\* show(), lines 1575-1609 with no object, and _Visu.show, lines 960-969.
show ==
    /\ ncalls < limit
    /\ LET V == IF has_active_timeline(Visu)
                   THEN Visu_panel(Visu, None, Born)
                   ELSE Visu
           order == IF V.act # 0 THEN Append(V.all, V.act) ELSE V.all
           r == ShowLoop(V.figs, order, 1)
       IN  IF r.ok
              THEN /\ figures' = r.figs
                   /\ active_figure' = 0
                   /\ all_figures' = <<>>
                   /\ shown' = Append(shown, Displayed(r.figs, order))
                   /\ last' = [op |-> "show", args |-> <<>>, raised |-> FALSE]
              ELSE /\ figures' = r.figs
                   /\ active_figure' = V.act
                   /\ all_figures' = V.all
                   /\ shown' = shown
                   /\ last' = [op |-> "show", args |-> <<>>, raised |-> TRUE]
    /\ ncalls' = ncalls + 1
    /\ pending' = [pending EXCEPT !.on = FALSE]
    /\ UNCHANGED <<pauseLog, limit>>
    /\ UNCHANGED notVisu

VisuNext ==
    \/ timeline
    \/ matrix
    \/ panel
    \/ sequence
    \/ interval
    \/ transition
    \/ function
    \/ segment
    \/ pause
    \/ show

SpecVisu == VisuInit /\ [][VisuNext]_vars

PanelInit ==
    /\ VisuStart(MaxPanelCalls)
    /\ DietIdle
    /\ ScriptIdle
    /\ SegIdle
    /\ CutIdle
    /\ BranchIdle

SpecPanel == PanelInit /\ [][VisuNext]_vars

(***************************************************************************)
(*        _utils_visu.py: value of a segment (SpecSeg)                     *)
(***************************************************************************)

\* A rational num/den, den > 0 (Python's true division).
Rat(n, d) == [st |-> "value", num |-> n, den |-> d]
SegError == [st |-> "error", num |-> 0, den |-> 1]

\* _segment_value, lines 405-426, on the fields of a _Segment.
_segment_value(start, end, vstart, vend, x) ==
    IF ~(start <= x /\ x <= end) THEN SegError
    ELSE IF start = INT_MIN /\ end < INT_MAX
        THEN Rat(vend - (end - x) * vstart, 1)
    ELSE IF end = INT_MAX /\ start > INT_MIN
        THEN Rat(vstart + (x - start) * vend, 1)
    ELSE IF vstart = vend THEN Rat(vstart, 1)
    ELSE Rat(vstart * (end - start) + (x - start) * (vend - vstart), end - start)

\* Abscissas and values used to exercise the segment arithmetic.
SegTimes == {INT_MIN, INTERVAL_MIN, -1, 0, 2, INTERVAL_MAX, INT_MAX}
SegValues == {-1, 0, 2}
MaxSegX == 3
SegXs == {INT_MIN, INT_MAX} \cup (-MaxSegX .. MaxSegX)

SegArgLists ==
    {<<PyInt(a), PyInt(b), PyInt(v)>> : a \in SegTimes, b \in SegTimes, v \in SegValues}
    \cup {<<PyInt(a), PyInt(b), PyInt(v), PyInt(w)>> :
              a \in {INT_MIN, 0}, b \in {2, INT_MAX}, v \in SegValues, w \in SegValues}
    \cup {<<PyInt(a), PyInt(b), PyInt(v), PyStr("step")>> :
              a \in {INT_MIN, 0}, b \in {2, INT_MAX}, v \in SegValues}
    \cup {<<PyStr("intervalmin"), PyStr("intervalmax"), PyInt(v)>> : v \in SegValues}
    \cup {<<Itv(0, 2, "itv"), PyInt(v)>> : v \in SegValues}
    \cup {<<PyInt(0), PyInt(2)>>, <<PyInt(0), PyInt(2), None>>, <<PyInt(0)>>}

SegInit ==
    /\ segArgs \in SegArgLists
    /\ segX \in SegXs
    /\ segOut = [st |-> "new", num |-> 0, den |-> 1]
    /\ DietIdle
    /\ ScriptIdle
    /\ VisuIdle
    /\ CutIdle
    /\ BranchIdle

\* segment(*args), line 1525, followed by the evaluation of the created segment
\* at segX, as the display methods do (lines 312-313, 464-465, 517-518).
SegmentEvaluate ==
    /\ segOut.st = "new"
    /\ LET c == _canonical_segment(segArgs) IN
          segOut' = IF c.err THEN SegError
                    ELSE _segment_value(c.start, c.end, c.a.v, c.b.v, segX)
    /\ UNCHANGED <<segArgs, segX>>
    /\ UNCHANGED notSeg

SegNext == SegmentEvaluate

SpecSeg == SegInit /\ [][SegNext]_vars

(***************************************************************************)
(*            cutstock.py: CutStockMasterModel.run (SpecCut)               *)
(***************************************************************************)

\* The bound of the loop, lines 210 and 242.
MaxLoopCount == 100

\* obj_eps (line 205) and rc_eps (line 204). Objective values are counted in
\* units of obj_eps / 2 and reduced costs in units of rc_eps / 2, so that two
\* values can differ by less than the tolerance.
ObjEps == 2
RcEps == 2

\* self.infinity (line 208), above every objective value.
Infinity == 1000

\* len(DEFAULT_PATTERNS), line 18.
DefaultPatterns == 5

\* The objective values a master solve may return and the reduced costs a
\* pattern-generator solve may return.
MaxObj == 3
ObjValues == 0..MaxObj
RcCosts == {-RcEps, -1, 0}

Abs(a) == IF a < 0 THEN -a ELSE a

\* The condition with <= in place of <.
Continue_OneMore == loop_count <= MaxLoopCount /\ Abs(best - curr) >= ObjEps

\* The condition of lines 210 and 242.
Continue == loop_count < MaxLoopCount /\ Abs(best - curr) >= ObjEps

\* A model constructed and loaded (lines 103-119, 262), run not yet called.
CutInit ==
    /\ cpc = "start"
    /\ loop_count = 0
    /\ best = 0
    /\ curr = 0
    /\ status = FALSE
    /\ best_cost = -1
    /\ nb_iters = -1
    /\ patterns = DefaultPatterns
    /\ returned = FALSE
    /\ masterSolves = 0
    /\ genSolves = 0
    /\ lastSolve = [model |-> "none", ok |-> FALSE, masterObj |-> 0]
    /\ failed = FALSE
    /\ retries = 0
    /\ DietIdle
    /\ ScriptIdle
    /\ SegIdle
    /\ VisuIdle
    /\ BranchIdle

\* run, lines 196-209.
RunStart ==
    /\ cpc = "start"
    /\ loop_count' = 0
    /\ best' = 0
    /\ curr' = Infinity
    /\ status' = FALSE
    /\ cpc' = "while"
    /\ UNCHANGED <<best_cost, nb_iters, patterns, returned, masterSolves, genSolves,
                   lastSolve, failed, retries>>
    /\ UNCHANGED notCut

\* Line 210: the test of the while loop.
WhileTest ==
    /\ cpc = "while"
    /\ cpc' = IF Continue THEN "master" ELSE "finish"
    /\ UNCHANGED <<loop_count, best, curr, status, best_cost, nb_iters, patterns, returned,
                   masterSolves, genSolves, lastSolve, failed, retries>>
    /\ UNCHANGED notCut

\* Lines 211-222: solve the master model; its outcome and objective are inputs.
MasterSolve ==
    /\ cpc = "master"
    /\ \E ok \in BOOLEAN : \E obj \in IF ok THEN ObjValues ELSE {0} :
          /\ status' = ok
          /\ curr' = IF ok THEN obj ELSE curr
          /\ cpc' = IF ok THEN "gen" ELSE "finish"
          /\ lastSolve' = [model |-> "master", ok |-> ok, masterObj |-> obj]
          /\ failed' = (failed \/ ~ok)
    /\ loop_count' = loop_count + 1
    /\ best' = curr
    /\ masterSolves' = masterSolves + 1
    /\ retries' = IF failed THEN retries + 1 ELSE retries
    /\ UNCHANGED <<best_cost, nb_iters, patterns, returned, genSolves>>
    /\ UNCHANGED notCut

\* Lines 224-237: solve the pattern generator; its outcome and objective
\* (the reduced cost) are inputs.
GenSolve ==
    /\ cpc = "gen"
    /\ \E ok \in BOOLEAN : \E rc_cost \in IF ok THEN RcCosts ELSE {0} :
          /\ status' = ok
          /\ cpc' = IF ~ok THEN "finish"
                    ELSE IF rc_cost <= -RcEps THEN "pattern" ELSE "finish"
          /\ lastSolve' = [lastSolve EXCEPT !.model = "gen", !.ok = ok]
          /\ failed' = (failed \/ ~ok)
    /\ genSolves' = genSolves + 1
    /\ retries' = IF failed THEN retries + 1 ELSE retries
    /\ UNCHANGED <<loop_count, best, curr, best_cost, nb_iters, patterns, returned,
                   masterSolves>>
    /\ UNCHANGED notCut

\* Lines 239-245: stop, or add the new pattern (add_new_pattern, lines 143-153)
\* and go round the loop.
AddPattern ==
    /\ cpc = "pattern"
    /\ IF ~Continue
          THEN cpc' = "finish" /\ UNCHANGED patterns
          ELSE cpc' = "while" /\ patterns' = patterns + 1
    /\ UNCHANGED <<loop_count, best, curr, status, best_cost, nb_iters, returned,
                   masterSolves, genSolves, lastSolve, failed, retries>>
    /\ UNCHANGED notCut

\* Lines 247-253 without the test of status.
Finish_AlwaysStores ==
    /\ cpc = "finish"
    /\ best_cost' = curr
    /\ nb_iters' = loop_count
    /\ returned' = status
    /\ cpc' = "returned"
    /\ UNCHANGED <<loop_count, best, curr, status, patterns, masterSolves, genSolves,
                   lastSolve, failed, retries>>
    /\ UNCHANGED notCut

\* Lines 247-253: store the results when status is true, return status.
Finish ==
    /\ cpc = "finish"
    /\ IF status
          THEN best_cost' = curr /\ nb_iters' = loop_count
          ELSE UNCHANGED <<best_cost, nb_iters>>
    /\ returned' = status
    /\ cpc' = "returned"
    /\ UNCHANGED <<loop_count, best, curr, status, patterns, masterSolves, genSolves,
                   lastSolve, failed, retries>>
    /\ UNCHANGED notCut

CutNext ==
    \/ RunStart
    \/ WhileTest
    \/ MasterSolve
    \/ GenSolve
    \/ AddPattern
    \/ Finish

\* run is sequential code: each of its steps is taken once it is reached (a
\* solve that is called returns).
SpecCut == CutInit /\ [][CutNext]_vars /\ WF_vars(CutNext)

(***************************************************************************)
(*             branch_callback.py: MyBranch (SpecBranch)                   *)
(***************************************************************************)

\* Number of variables of the model (len(x)) and number of invocations of the
\* callback by the solver.
NVars == 2
MaxCalled == 2

\* Variable values are rationals with denominator Den, held as numerators.
Den == 4
XNums == {-(Den - 1), -1, 0, 1, Den \div 2, Den - 1, Den + 1}

\* Objective coefficients.
ObjCoefs == {-1, 0, 1}

\* cplex.infinity (line 41), above every value it is compared with.
cplex_infinity == 1000

\* self.branch_type and self.feasibility_status.
BranchTypes == {"var", "sos1", "sos2"}
Feasibilities == {"feasible", "infeasible"}

\* math.floor of the value with numerator n, and its fractional part (a
\* numerator over Den).
Floor(n) == n \div Den
Frac(n) == n - Den * Floor(n)

\* What the solver can pass for one variable: it reports a variable as
\* (integer) infeasible only when its value is fractional.
SolverData == {d \in XNums \X Feasibilities \X ObjCoefs :
                  d[2] = "infeasible" => Frac(d[1]) # 0}

\* MyBranch.__init__, lines 21-26, for a model of NVars variables.
BranchInit ==
    /\ bpc = "idle"
    /\ bestj = -1
    /\ maxinf = 0
    /\ maxobj = 0
    /\ nb_called = 0
    /\ stats = [v \in 0..(NVars - 1) |-> 0]
    /\ branches = <<>>
    /\ br_type = "none"
    /\ xs = <<>>
    /\ feas = <<>>
    /\ DietIdle
    /\ ScriptIdle
    /\ SegIdle
    /\ VisuIdle
    /\ CutIdle

\* __call__, lines 29-44: count the invocation, return for an SOS branch,
\* else initialise the search.
CallStart ==
    /\ bpc = "idle"
    /\ nb_called < MaxCalled
    /\ nb_called' = nb_called + 1
    /\ \E bt \in BranchTypes :
          /\ br_type' = bt
          /\ bpc' = IF bt \in {"sos1", "sos2"} THEN "idle" ELSE "loop"
    /\ maxobj' = -cplex_infinity
    /\ maxinf' = -cplex_infinity
    /\ bestj' = -1
    /\ branches' = <<>>
    /\ xs' = <<>>
    /\ feas' = <<>>
    /\ UNCHANGED stats
    /\ UNCHANGED notBranch

\* The new bestj, maxinf, maxobj of lines 47-56 for variable j with value xj,
\* feasibility fj and objective coefficient oj; consider says whether the
\* test of line 47 is made.
Select(j, xj, fj, oj, consider) ==
    LET f == Frac(xj)
        xj_inf == IF 2 * f > Den THEN Den - f ELSE f
    IN  IF consider /\ xj_inf >= maxinf /\ (xj_inf > maxinf \/ Abs(oj) >= maxobj)
        THEN [bestj |-> j, maxinf |-> xj_inf, maxobj |-> Abs(oj)]
        ELSE [bestj |-> bestj, maxinf |-> maxinf, maxobj |-> maxobj]

\* The loop body without the test of line 47: every variable is considered.
LoopStep_AnyVariable ==
    /\ bpc = "loop"
    /\ Len(xs) < NVars
    /\ \E d \in SolverData :
          LET r == Select(Len(xs), d[1], d[2], d[3], TRUE) IN
          /\ xs' = Append(xs, d[1])
          /\ feas' = Append(feas, d[2])
          /\ bestj' = r.bestj
          /\ maxinf' = r.maxinf
          /\ maxobj' = r.maxobj
    /\ UNCHANGED <<bpc, nb_called, stats, branches, br_type>>
    /\ UNCHANGED notBranch

\* Lines 46-56: one iteration of the loop, for j = Len(xs); x[j], feas[j] and
\* obj[j] are read from the solver.
LoopStep ==
    /\ bpc = "loop"
    /\ Len(xs) < NVars
    /\ \E d \in SolverData :
          LET r == Select(Len(xs), d[1], d[2], d[3], d[2] = "infeasible") IN
          /\ xs' = Append(xs, d[1])
          /\ feas' = Append(feas, d[2])
          /\ bestj' = r.bestj
          /\ maxinf' = r.maxinf
          /\ maxobj' = r.maxobj
    /\ UNCHANGED <<bpc, nb_called, stats, branches, br_type>>
    /\ UNCHANGED notBranch

\* make_branch(objval, variables=[(j, dir, bound)], node_data=(j, lo, tag)).
make_branch(j, dir, bound, lo, tag) ==
    [var |-> j, dir |-> dir, bound |-> bound, node_data |-> <<j, lo, tag>>]

\* Lines 58-72: after the loop, return or count and create the two branches.
Branch ==
    /\ bpc = "loop"
    /\ Len(xs) = NVars
    /\ IF bestj < 0
          THEN UNCHANGED <<stats, branches>>
          ELSE LET xj_lo == Floor(xs[bestj + 1]) IN
               /\ stats' = [stats EXCEPT ![bestj] = @ + 1]
               /\ branches' = <<make_branch(bestj, "L", xj_lo + 1, xj_lo, "UP"),
                                make_branch(bestj, "U", xj_lo, xj_lo, "DOWN")>>
    /\ bpc' = "idle"
    /\ UNCHANGED <<bestj, maxinf, maxobj, nb_called, br_type, xs, feas>>
    /\ UNCHANGED notBranch

BranchNext ==
    \/ CallStart
    \/ LoopStep
    \/ Branch

SpecBranch == BranchInit /\ [][BranchNext]_vars

(***************************************************************************)
(*                   Properties of diet_pandas.py                          *)
(***************************************************************************)

\* A thread is executing an output operation: the update of the outputs dict
\* (lines 174-176) or the writing loop of write_all_outputs (lines 82-86).
InUpdate(t) == t = "main" /\ pc[t] \in {"m_assign", "m_unlock"}
InWritingLoop(t) == pc[t] \in WriteInProgressLocs

\* C3: when wait_and_save_all_cb returns, no execution of write_all_outputs
\* is in progress or still pending in any thread.
C3_NoWriteWhenCallbackReturns ==
    [][(pc["cb"] # "cb_returned" /\ pc'["cb"] = "cb_returned")
          => \A t \in Threads :
                pc'[t] \notin (WritePendingLocs \cup WriteInProgressLocs)]_vars

\* C4: once both threads are finished, if outputs['solution'] was assigned
\* then solution.csv has been written.
C4_SolutionSaved ==
    (/\ pc["main"] = "m_done"
     /\ pc["cb"] \in {"cb_idle", "cb_returned"}
     /\ "solution" \in outputs)
        => "solution" \in files

\* C5: output operations exclude each other: the update of the outputs dict and
\* the writing loop never run at the same time, nor do two writing loops.
C5_OutputOpsExclusive ==
    \A t1, t2 \in Threads :
        (t1 # t2 /\ (InUpdate(t1) \/ InWritingLoop(t1)))
            => ~(InUpdate(t2) \/ InWritingLoop(t2))

\* C5 witness: the stop callback is inside the writing loop while the main
\* thread has solved and waits for the lock to update outputs.
C5_Witness == pc["cb"] = "w_write" /\ pc["main"] = "m_lock"

(***************************************************************************)
(*              Properties of the result reporting scripts                 *)
(***************************************************************************)

\* C10: when a script has ended, it printed its no-solution message exactly if
\* the solve call returned no solution, and in that case it read no variable
\* value from the result.
C10_NoSolutionReported ==
    spc \in {"done", "raised"}
        => IF hasSol THEN ~noSolMsg ELSE (noSolMsg /\ reads = 0)

(***************************************************************************)
(*                  Properties of the segment arithmetic                   *)
(***************************************************************************)

\* C8: when vend is not specified, the value of the segment at every x with
\* start <= x <= end is vstart.
C8_ConstantWhenVendUnspecified ==
    (segOut.st = "value" /\ VendUnspecified(segArgs))
        => segOut.num = _canonical_segment(segArgs).a.v * segOut.den

(***************************************************************************)
(*                 Properties of the visualization module                  *)
(***************************************************************************)

\* The panels constructed for a timeline.
PanelsOf(tl) == {q \in 1..Len(tl.objects) : tl.objects[q].cls \in PanelClasses}

\* C1: a pause created while its timeline had a current panel is in the pause
\* list of that panel and in the pause list of no other panel of the timeline.
C1_PauseLocalToPanel ==
    \A i \in 1..Len(pauseLog) :
        LET g == pauseLog[i]
            tl == figures[g.fig]
        IN  g.panel # 0 =>
               \A q \in PanelsOf(tl) : (tl.objects[q].pauses = g.list) <=> (q = g.panel)

Range(f) == {f[i] : i \in 1..Len(f)}

\* C2: each completed show() displayed exactly the figures constructed since
\* the previous completed show(); each displayed timeline contained every
\* panel constructed for it; no figure was displayed by two show() calls.
C2_ShowDisplaysActiveFigures ==
    /\ \A j \in 1..Len(shown) :
          /\ {shown[j][i].fig : i \in 1..Len(shown[j])}
                = {f \in 1..Len(figures) : figures[f].born = j - 1}
          /\ \A i \in 1..Len(shown[j]) :
                Range(shown[j][i].panels) = PanelsOf(figures[shown[j][i].fig])
    /\ \A j1, j2 \in 1..Len(shown) :
          j1 # j2 => \A i1 \in 1..Len(shown[j1]), i2 \in 1..Len(shown[j2]) :
                        shown[j1][i1].fig # shown[j2][i2].fig

\* C6: interval(x), transition(x) and pause(x) called with a single
\* CpoIntervalVarSolution raise no error and create the item from the start and
\* end of x (an interval with colour 0 and the name of x).
C6_SingleIntervalSolutionAccepted ==
    (/\ last.op \in {"interval", "transition", "pause"}
     /\ Len(last.args) = 1
     /\ IsItv(last.args[1]))
        => /\ ~last.raised
           /\ LET x == last.args[1]
                  tl == figures[active_figure]
                  o == tl.objects[Len(tl.objects)]
              IN  CASE last.op = "interval" ->
                          /\ o.cls = "Interval"
                          /\ o.origin = Some(x.v) /\ o.horizon = Some(x.e)
                          /\ o.color = PyInt(0) /\ o.name = PyStr(x.s)
                    [] last.op = "transition" ->
                          /\ o.cls = "Interval"
                          /\ o.origin = Some(x.v) /\ o.horizon = Some(x.e)
                    [] OTHER ->
                          LET l == IF PauseTarget(tl) # 0 THEN tl.lists[PauseTarget(tl)]
                                   ELSE tl.pauses
                          IN  l # <<>> /\ l[Len(l)] = <<x.v, x.e>>

\* A start or end that update_bounds takes into account.
Finite(v) == INTERVAL_MIN < v /\ v < INTERVAL_MAX
StartOf(o) == IF o.cls = "Interval" THEN o.origin[1] ELSE o.start
EndOf(o) == IF o.cls = "Interval" THEN o.horizon[1] ELSE o.end

\* C7: every displayed timeline has origin <= start and end <= horizon for
\* each of its intervals, transitions and segments with finite start and end.
C7_BoundsFitContent ==
    \A j \in 1..Len(shown) : \A i \in 1..Len(shown[j]) :
        LET d == shown[j][i]
            tl == figures[d.fig]
        IN  \A q \in 1..Len(tl.objects) :
               LET o == tl.objects[q] IN
               (o.cls \in {"Interval", "Segment"} /\ Finite(StartOf(o)) /\ Finite(EndOf(o)))
                  => (d.origin <= StartOf(o) /\ EndOf(o) <= d.horizon)

ContentOps == {"sequence", "transition", "interval", "function", "segment"}
ExpectedPanel(op) ==
    IF op \in {"sequence", "transition"} THEN "SequencePanel"
    ELSE IF op = "interval" THEN "IntervalPanel"
    ELSE "FunctionPanel"

\* C9: the first content command executed after panel(name) constructs exactly
\* one panel; its type is the one of the command and its name is the given name.
C9_PanelTypeFromNextCommand ==
    [][(/\ pending.on
        /\ ncalls' = ncalls + 1
        /\ last'.op \in ContentOps
        /\ ~last'.raised)
          => LET before == PanelsOf(figures[active_figure])
                 tl == figures'[active_figure']
                 new == PanelsOf(tl) \ before
             IN  /\ active_figure' = active_figure
                 /\ Cardinality(new) = 1
                 /\ \A q \in new : /\ tl.objects[q].cls = ExpectedPanel(last'.op)
                                   /\ tl.objects[q].name = pending.name]_vars

\* C9 witness: segment(...) ran after panel("P") had closed a function panel,
\* and made a second function panel, named P.
C9_Witness ==
    /\ last.op = "segment" /\ ~last.raised
    /\ active_figure # 0
    /\ LET tl == figures[active_figure] IN
          /\ tl.active_functionsp # 0
          /\ tl.objects[tl.active_functionsp].name = PyStr("P")
          /\ \E q \in Range(tl.panels) : tl.objects[q].cls = "FunctionPanel"

(***************************************************************************)
(*                 Properties of CutStockMasterModel.run                   *)
(***************************************************************************)

\* C11: run returns, and in every state it has solved the master model at
\* most 100 times and the pattern-generator model at most 100 times.
C11_RunTerminates ==
    /\ <>(cpc = "returned")
    /\ [](masterSolves <= MaxLoopCount /\ genSolves <= MaxLoopCount)

\* C11 witness: run has returned after 100 solves of each model.
C11_Witness ==
    /\ cpc = "returned"
    /\ masterSolves = MaxLoopCount
    /\ genSolves = MaxLoopCount

\* C12: no solve is performed after a failed solve; when run has returned
\* true, the last solve performed had succeeded, best_cost is the objective of
\* the last master solve and nb_iters the number of master solves; when a
\* solve has failed, run has returned false and best_cost and nb_iters are -1.
C12_ResultConsistent ==
    /\ retries = 0
    /\ cpc = "returned" =>
          /\ returned => /\ lastSolve.ok
                         /\ best_cost = lastSolve.masterObj
                         /\ nb_iters = masterSolves
          /\ failed => /\ ~returned
                       /\ best_cost = -1
                       /\ nb_iters = -1

\* C12 witness: run has returned after a pattern-generator solve failed in
\* its second iteration or later.
C12_Witness ==
    /\ cpc = "returned"
    /\ failed
    /\ lastSolve.model = "gen"
    /\ masterSolves >= 2

(***************************************************************************)
(*                   Properties of the MyBranch callback                   *)
(***************************************************************************)

RECURSIVE SumStats(_)
SumStats(n) == IF n = 0 THEN 0 ELSE stats[n - 1] + SumStats(n - 1)

\* The integer values tested against the bounds of the two branches.
IntValues == (Floor(-(Den - 1)) - 1)..(Floor(Den + 1) + 2)

\* C13: when an invocation has ended it has created no branch or exactly two
\* branches; the two are on one variable j whose value is fractional, the
\* first with lower bound floor(x[j]) + 1, the second with upper bound
\* floor(x[j]), and every integer satisfies exactly one of the two bounds; the
\* branchings counted in stats are never more than nb_called.
C13_TwoBranchesOnFractionalVariable ==
    /\ SumStats(NVars) <= nb_called
    /\ bpc = "idle" =>
          /\ Len(branches) \in {0, 2}
          /\ Len(branches) = 2 =>
                LET j == branches[1].var
                    up == branches[1]
                    down == branches[2]
                IN  /\ j \in 0..(NVars - 1)
                    /\ down.var = j
                    /\ Frac(xs[j + 1]) # 0
                    /\ up.dir = "L" /\ up.bound = Floor(xs[j + 1]) + 1
                    /\ down.dir = "U" /\ down.bound = Floor(xs[j + 1])
                    /\ \A v \in IntValues : (v >= up.bound) # (v <= down.bound)

\* C13 witness: the second invocation has branched on a variable whose
\* fractional part is above one half, and on a variable of negative value.
C13_Witness ==
    /\ bpc = "idle"
    /\ nb_called = 2
    /\ Len(branches) = 2
    /\ 2 * Frac(xs[branches[1].var + 1]) > Den
    /\ xs[branches[1].var + 1] < 0

====
